---- MODULE Spec2Model ----
(***************************************************************************)
(* TimeScope background tracker (src/src/background.ts, class TimeTracker). *)
(*                                                                         *)
(* The tracker is driven by browser events (tabs.onActivated,              *)
(* tabs.onUpdated, windows.onFocusChanged).  Handlers run to their first   *)
(* await atomically; every await (tabs.get, tabs.query, storage.get,       *)
(* storage.set) is a pending request that the browser answers in a later   *)
(* step, in any order.  Time is the value of Date.now() in milliseconds.   *)
(*                                                                         *)
(* Browser: window 1 holds tabs 1 and 2, window 2 is a window without tabs *)
(* (tabs.query on it answers the empty list).                              *)
(*                                                                         *)
(* Specifications: Spec (the tracker, any interleaving), SpecMeasured (Spec *)
(* with the on-screen time of each domain measured), SpecSeq (one event at *)
(* a time, no failures), SpecRead (one tracker event at a time, with the   *)
(* popup's getTodayData calls and several stores at start), SpecFair (the  *)
(* tracker and the popup's calls, every request answered in the end),      *)
(* SpecLog (the calls of addDebugLog, until the debug log has overflowed). *)
(***************************************************************************)
EXTENDS Integers, Sequences, FiniteSets, Bags, TLC

\* ---------------------------------------------------------------- bounds
MaxTicks == 3
MaxEvents == 2

\* ------------------------------------------------------ program constants
MIN_DURATION_MS == 1000
WINDOW_ID_NONE == -1
MsPerDay == 86400000

TickMs == MIN_DURATION_MS \div 2
StartTime == MsPerDay
EndTime == StartTime + MaxTicks * TickMs

\* ------------------------------------------------------------ the browser
Tabs == {1, 2}
Windows == {1, 2}
TabWindow == 1
NoTabWindow == 2

\* A URL string is the sequence of its components: <<protocol, hostname,
\* rest>>.  "" is <<>>; a string that is no URL has no protocol component.
UrlA == <<"https:", "a.com", "/inbox">>
UrlB == <<"https:", "b.com", "/">>
UrlChrome == <<"chrome:", "settings", "/">>
UrlExtension == <<"chrome-extension:", "abcdef", "/popup.html">>
UrlGarbage == <<"not a url">>
UrlEmpty == <<>>

Protocols == {"https:", "chrome:", "chrome-extension:"}

\* The URLs each tab may show.
TabUrls(t) ==
  IF t = 1 THEN {UrlA, UrlB, UrlEmpty}
           ELSE {UrlB, UrlChrome, UrlExtension, UrlGarbage}

Domains == {"a.com", "b.com"}

\* new URL(url): <<>> when the constructor throws, else <<[protocol, hostname]>>.
ParseURL(url) ==
  IF Len(url) >= 2 /\ url[1] \in Protocols
    THEN <<[protocol |-> url[1], hostname |-> url[2]]>>
    ELSE <<>>

\* extractDomain(url): <<>> is null, <<h>> is the hostname h.
extractDomain(url) ==
  IF ParseURL(url) = <<>>
    THEN <<>>
    ELSE IF ParseURL(url)[1].protocol = "chrome:"
            \/ ParseURL(url)[1].protocol = "chrome-extension:"
           THEN <<>>
           ELSE <<ParseURL(url)[1].hostname>>

\* JavaScript truthiness: if (tab.url), if (domain).
UrlTruthy(url) == url # <<>>
DomainTruthy(domain) == domain # <<>> /\ domain[1] # ""

\* getTodayKey at time t: the local calendar day, as a day number.
getTodayKey(t) == t \div MsPerDay

VARIABLES
  now,             \* Date.now()
  focusedWin,      \* browser: the focused window, or WINDOW_ID_NONE
  activeTab,       \* browser: the active tab of window 1
  tabs,            \* browser: tab id -> [open, url]
  currentTab,      \* tracker: <<>> (null) or <<[tabId, domain, startTime]>>
  isWindowFocused, \* tracker
  initPending,     \* initializeCurrentTab awaits tabs.query
  pendingGets,     \* handleTabChange calls awaiting tabs.get: tabId -> count
  pendingQueries,  \* focus-gained tabs.query callbacks: windowId -> count
  pendingCommits,  \* bag of addTimeToStorage calls in flight
  storage,         \* chrome.storage.local: day key -> DailyData
  storageKeys,     \* chrome.storage.local: day key -> the keys of its DailyData, in insertion order
  pendingReads,    \* bag of getTodayData calls in flight (their day keys)
  response,        \* <<>> or <<r>>: the last response getTodayData gave
  closed,          \* history: what the close step did to the value of currentTab
  committedMs,     \* history: domain -> sum of the durations written to the store
  refTotals,       \* history: domain -> sum over intervals of their first close >= threshold
  activeMs,        \* history (SpecMeasured): domain -> time a tab of it was active in a focused window
  ev,              \* history: the event the last step delivered
  events,          \* history: the number of browser events delivered
  sinceWrite,      \* history: the responses given since the store was last written
  debugLogs,       \* tracker: the debug log entries, as getDebugLogs returns them
  logHistory       \* history: every entry addDebugLog was called with, in call order

vars == <<now, focusedWin, activeTab, tabs, currentTab, isWindowFocused,
          initPending, pendingGets, pendingQueries, pendingCommits, storage,
          closed, committedMs, refTotals, activeMs, ev, events, storageKeys,
          pendingReads, response, sinceWrite, debugLogs, logHistory>>

logVars == <<debugLogs, logHistory>>

NoEvent == [op |-> "none", status |-> "", active |-> FALSE]

GetsInFlight == pendingGets[1] + pendingGets[2]

NumPending ==
  GetsInFlight + pendingQueries[1] + pendingQueries[2]
    + (IF initPending THEN 1 ELSE 0)

NumCommits == BagCardinality(pendingCommits)

Quiescent == NumPending = 0 /\ NumCommits = 0

\* The transitions, commits and getTodayData calls that have not finished.
Outstanding == NumPending + NumCommits + BagCardinality(pendingReads)

\* The domain really on screen: the active tab of the focused window.
ShownDomain ==
  IF focusedWin = TabWindow /\ tabs[activeTab].url \in {UrlA, UrlB}
    THEN <<tabs[activeTab].url[2]>>
    ELSE <<>>

\* DailyData of a day: result[today] || {}
DailyOf(store, day) ==
  IF day \in DOMAIN store THEN store[day] ELSE [d \in {} |-> 0]

\* dailyData[domain] || 0
MsOf(daily, d) == IF d \in DOMAIN daily THEN daily[d] ELSE 0

\* The store when the extension starts: totals of the day before.
Yesterday ==
  [k \in {getTodayKey(StartTime) - 1} |-> [d \in {"a.com"} |-> 60 * MIN_DURATION_MS]]

YesterdayKeys == [k \in {getTodayKey(StartTime) - 1} |-> <<"a.com">>]

\* Object.keys of the DailyData of a day, {} when the day has none.
KeysOf(keys, day) == IF day \in DOMAIN keys THEN keys[day] ELSE <<>>

\* No response of getTodayData since the last write of the store.
NoResponses == [last |-> <<>>, ok |-> <<>>, n |-> 0]

\* ---------------------------------------------------------- the debug log
\* The log is written by every handler and read by none of them: only
\* getDebugLogs returns it. The calls of addDebugLog are the steps AddDebugLog
\* of SpecLog; the other specifications keep the log of the constructor.
MAX_DEBUG_LOGS == 100

\* How many calls of addDebugLog SpecLog follows: enough to overflow the log.
LogCalls == MAX_DEBUG_LOGS + MaxEvents

\* A DebugLogEntry. The calls pass pairwise distinct data (the number of the
\* call), so that every entry of the log can be told from every other.
LogEntry(type, message, data) ==
  [timestamp |-> now, message |-> message, type |-> type, data |-> data]

\* slice(-MAX_DEBUG_LOGS) in place of slice(0, MAX_DEBUG_LOGS).
addDebugLogSliceEnd(logs, logEntry) ==
  LET unshifted == <<logEntry>> \o logs
  IN  IF Len(unshifted) > MAX_DEBUG_LOGS
      THEN SubSeq(unshifted, Len(unshifted) - MAX_DEBUG_LOGS + 1, Len(unshifted))
      ELSE unshifted

\* addDebugLog: unshift(logEntry), then slice(0, MAX_DEBUG_LOGS) when the log
\* is longer than MAX_DEBUG_LOGS.
addDebugLog(logs, logEntry) ==
  LET unshifted == <<logEntry>> \o logs
  IN  IF Len(unshifted) > MAX_DEBUG_LOGS
      THEN SubSeq(unshifted, 1, MAX_DEBUG_LOGS)
      ELSE unshifted

\* getDebugLogs: a copy of the log.
getDebugLogs == debugLogs

\* The entry the constructor logs.
ConstructorLog ==
  [timestamp |-> StartTime, message |-> "TimeTracker initialized",
   type |-> "info", data |-> 1]

\* The tracker and the browser when the background script has been loaded.
InitTracker ==
  /\ now = StartTime
  /\ focusedWin = TabWindow
  /\ activeTab = 1
  /\ tabs = [t \in Tabs |-> [open |-> TRUE,
                             url |-> IF t = 1 THEN UrlA ELSE UrlB]]
  /\ currentTab = <<>>
  /\ isWindowFocused = TRUE
  /\ initPending = TRUE
  /\ pendingGets = [t \in Tabs |-> 0]
  /\ pendingQueries = [w \in Windows |-> 0]
  /\ pendingCommits = EmptyBag
  /\ closed = "none"
  /\ committedMs = [d \in Domains |-> 0]
  /\ refTotals = [d \in Domains |-> 0]
  /\ activeMs = [d \in Domains |-> 0]
  /\ ev = NoEvent
  /\ events = 0
  /\ pendingReads = EmptyBag
  /\ response = <<>>
  /\ sinceWrite = NoResponses
  /\ debugLogs = addDebugLog(<<>>, ConstructorLog)
  /\ logHistory = <<ConstructorLog>>

Init ==
  /\ InitTracker
  /\ storage = Yesterday
  /\ storageKeys = YesterdayKeys

\* ------------------------------------------------------------ the tracker
Elapsed == IF currentTab = <<>> THEN 0 ELSE now - currentTab[1].startTime

\* recordCurrentSession: the commit condition `timeSpent >= 1000`.
ShouldRecord(timeSpent) == timeSpent >= MIN_DURATION_MS

\* addTimeToStorage(domain, timeSpent) up to its first await: the day key is
\* taken and storage.get is requested.
StartCommit(domain, timeSpent) ==
  [domain |-> domain, timeSpent |-> timeSpent, today |-> getTodayKey(now),
   stage |-> "get", dailyData |-> [d \in {} |-> 0], keys |-> <<>>]

\* The addTimeToStorage calls recordCurrentSession starts (it does not await
\* them and does not touch currentTab).
NewCommits ==
  IF currentTab = <<>>
    THEN EmptyBag
    ELSE IF ShouldRecord(Elapsed)
           THEN SetToBag({StartCommit(currentTab[1].domain, Elapsed)})
           ELSE EmptyBag

\* History of the close step on the current value of currentTab.
ClosedAfterRecord ==
  IF currentTab = <<>> THEN closed
  ELSE IF closed = "open"
         THEN (IF Elapsed >= MIN_DURATION_MS THEN "committed" ELSE "short")
         ELSE closed

RefAfterRecord ==
  IF currentTab # <<>> /\ closed = "open" /\ Elapsed >= MIN_DURATION_MS
    THEN [refTotals EXCEPT ![currentTab[1].domain] = @ + Elapsed]
    ELSE refTotals

recordCurrentSession ==
  /\ pendingCommits' = pendingCommits (+) NewCommits
  /\ refTotals' = RefAfterRecord

\* handleTabChange(tabId) up to its await of chrome.tabs.get(tabId) (and,
\* before it, the handler without its focus guard).
handleTabChangeNoGuard(tabId) ==
  /\ recordCurrentSession
  /\ closed' = ClosedAfterRecord
  /\ pendingGets' = [pendingGets EXCEPT ![tabId] = @ + 1]
  /\ UNCHANGED currentTab

handleTabChange(tabId) ==
  IF ~isWindowFocused
    THEN UNCHANGED <<currentTab, pendingGets, pendingCommits, closed, refTotals>>
    ELSE /\ recordCurrentSession
         /\ closed' = ClosedAfterRecord
         /\ pendingGets' = [pendingGets EXCEPT ![tabId] = @ + 1]
         /\ UNCHANGED currentTab

\* Whether the rest of handleTabChange assigns a new interval.
OpensInterval(tab) ==
  tab.open /\ UrlTruthy(tab.url) /\ DomainTruthy(extractDomain(tab.url))

\* handleTabChange after chrome.tabs.get(tabId) settled: the value of
\* currentTab when the handler returns (and, before it, the handler whose
\* catch does not reset currentTab).
AfterTabGetKeepsTab(tabId, tab) ==
  IF ~tab.open
    THEN currentTab
    ELSE IF UrlTruthy(tab.url)
           THEN IF DomainTruthy(extractDomain(tab.url))
                  THEN <<[tabId |-> tabId,
                          domain |-> extractDomain(tab.url)[1],
                          startTime |-> now]>>
                  ELSE <<>>
           ELSE currentTab

AfterTabGet(tabId, tab) ==
  IF ~tab.open
    THEN <<>>
    ELSE IF UrlTruthy(tab.url)
           THEN IF DomainTruthy(extractDomain(tab.url))
                  THEN <<[tabId |-> tabId,
                          domain |-> extractDomain(tab.url)[1],
                          startTime |-> now]>>
                  ELSE <<>>
           ELSE currentTab

\* The guard of the onUpdated listener (and, before it, the guard without
\* the tab.active test).
OnUpdatedGateNoActive(status, active) == status = "complete" /\ isWindowFocused

OnUpdatedGate(status, active) ==
  status = "complete" /\ active /\ isWindowFocused

\* The onFocusChanged listener, windowId = WINDOW_ID_NONE (and, before it,
\* the listener without `this.currentTab = null`).
FocusLostKeepsTab ==
  /\ isWindowFocused' = FALSE
  /\ recordCurrentSession
  /\ closed' = ClosedAfterRecord
  /\ UNCHANGED currentTab

FocusLost ==
  /\ isWindowFocused' = FALSE
  /\ recordCurrentSession
  /\ currentTab' = <<>>
  /\ closed' = "none"

Ext(f, k, v) == [x \in DOMAIN f \cup {k} |-> IF x = k THEN v ELSE f[x]]

Event(op, status, active) ==
  [op |-> op, status |-> status, active |-> active]

\* ------------------------------------------------------------- the events
\* chrome.tabs.onActivated: tab t becomes the active tab of its window.
OnActivated(t) ==
  /\ tabs[t].open /\ t # activeTab
  /\ activeTab' = t
  /\ handleTabChange(t)
  /\ events < MaxEvents
  /\ events' = events + 1
  /\ ev' = Event("onActivated", "", TRUE)
  /\ UNCHANGED <<now, focusedWin, tabs, isWindowFocused, initPending,
                 pendingQueries, storage, committedMs, activeMs>>
  /\ UNCHANGED <<storageKeys, pendingReads, response, sinceWrite, logVars>>

\* chrome.tabs.onUpdated for tab t: a navigation to url that finished loading
\* (status "complete"), or a change that leaves the URL alone.
OnUpdated(t, status, url) ==
  /\ tabs[t].open
  /\ status = "complete" \/ url = tabs[t].url
  /\ tabs' = [tabs EXCEPT ![t].url = url]
  /\ IF OnUpdatedGate(status, t = activeTab)
       THEN handleTabChange(t)
       ELSE UNCHANGED <<currentTab, pendingGets, pendingCommits, closed, refTotals>>
  /\ events < MaxEvents
  /\ events' = events + 1
  /\ ev' = Event("onUpdated", status, t = activeTab)
  /\ UNCHANGED <<now, focusedWin, activeTab, isWindowFocused, initPending,
                 pendingQueries, storage, committedMs, activeMs>>
  /\ UNCHANGED <<storageKeys, pendingReads, response, sinceWrite, logVars>>

\* chrome.windows.onFocusChanged(WINDOW_ID_NONE).
OnFocusLost ==
  /\ focusedWin # WINDOW_ID_NONE
  /\ focusedWin' = WINDOW_ID_NONE
  /\ FocusLost
  /\ events < MaxEvents
  /\ events' = events + 1
  /\ ev' = Event("focusLost", "", FALSE)
  /\ UNCHANGED <<now, activeTab, tabs, initPending, pendingGets,
                 pendingQueries, storage, committedMs, activeMs>>
  /\ UNCHANGED <<storageKeys, pendingReads, response, sinceWrite, logVars>>

\* chrome.windows.onFocusChanged(w), w a window: tabs.query is requested.
OnFocusGained(w) ==
  /\ focusedWin # w
  /\ focusedWin' = w
  /\ isWindowFocused' = TRUE
  /\ pendingQueries' = [pendingQueries EXCEPT ![w] = @ + 1]
  /\ events < MaxEvents
  /\ events' = events + 1
  /\ ev' = Event("focusGained", "", FALSE)
  /\ UNCHANGED <<now, activeTab, tabs, currentTab, initPending, pendingGets,
                 pendingCommits, storage, closed, committedMs, refTotals,
                 activeMs>>
  /\ UNCHANGED <<storageKeys, pendingReads, response, sinceWrite, logVars>>

\* Tab t is closed while a chrome.tabs.get(t) is in flight (a tab nobody looks
\* up closes without any effect on the tracker).  When t is the active tab the
\* browser activates the tab that remains and delivers tabs.onActivated for it.
CloseTab(t) ==
  /\ tabs[t].open
  /\ pendingGets[t] > 0
  /\ \E u \in Tabs \ {t} : tabs[u].open
  /\ tabs' = [tabs EXCEPT ![t] = [open |-> FALSE, url |-> UrlEmpty]]
  /\ IF t = activeTab
       THEN /\ activeTab' = CHOOSE u \in Tabs \ {t} : tabs[u].open
            /\ handleTabChange(activeTab')
            /\ ev' = Event("onActivated", "", TRUE)
       ELSE /\ ev' = NoEvent
            /\ UNCHANGED <<activeTab, currentTab, pendingGets, pendingCommits,
                           closed, refTotals>>
  /\ events < MaxEvents
  /\ events' = events + 1
  /\ UNCHANGED <<now, focusedWin, isWindowFocused, initPending,
                 pendingQueries, storage, committedMs, activeMs>>
  /\ UNCHANGED <<storageKeys, pendingReads, response, sinceWrite, logVars>>

\* ------------------------------------------------- the awaited requests
\* The tabs.query callback of the focus-gained branch.
QueryDone(w) ==
  /\ pendingQueries[w] > 0
  /\ IF w = TabWindow
       THEN /\ pendingQueries' = [pendingQueries EXCEPT ![w] = @ - 1]
            /\ handleTabChange(activeTab)
       ELSE /\ pendingQueries' = [pendingQueries EXCEPT ![w] = @ - 1]
            /\ UNCHANGED <<currentTab, pendingGets, pendingCommits, closed,
                           refTotals>>
  /\ ev' = NoEvent
  /\ events' = events
  /\ UNCHANGED <<now, focusedWin, activeTab, tabs, isWindowFocused,
                 initPending, storage, committedMs, activeMs>>
  /\ UNCHANGED <<storageKeys, pendingReads, response, sinceWrite, logVars>>

\* initializeCurrentTab after its tabs.query({active, currentWindow}).
InitDone ==
  /\ initPending
  /\ initPending' = FALSE
  /\ IF focusedWin # NoTabWindow /\ UrlTruthy(tabs[activeTab].url)
        /\ DomainTruthy(extractDomain(tabs[activeTab].url))
       THEN /\ currentTab' = <<[tabId |-> activeTab,
                                domain |-> extractDomain(tabs[activeTab].url)[1],
                                startTime |-> now]>>
            /\ closed' = "open"
       ELSE UNCHANGED <<currentTab, closed>>
  /\ ev' = NoEvent
  /\ events' = events
  /\ UNCHANGED <<now, focusedWin, activeTab, tabs, isWindowFocused,
                 pendingGets, pendingQueries, pendingCommits, storage,
                 committedMs, refTotals, activeMs>>
  /\ UNCHANGED <<storageKeys, pendingReads, response, sinceWrite, logVars>>

\* chrome.tabs.get(t) settles and handleTabChange runs to its end (and, before
\* it, the handler without a catch, which a rejected lookup leaves unfinished).
TabGetDoneNoCatch(t) ==
  /\ pendingGets[t] > 0
  /\ tabs[t].open
  /\ pendingGets' = [pendingGets EXCEPT ![t] = @ - 1]
  /\ currentTab' = AfterTabGet(t, tabs[t])
  /\ closed' = IF currentTab' = <<>> THEN "none"
               ELSE IF OpensInterval(tabs[t]) THEN "open" ELSE closed
  /\ ev' = NoEvent
  /\ events' = events
  /\ UNCHANGED <<now, focusedWin, activeTab, tabs, isWindowFocused,
                 initPending, pendingQueries, pendingCommits, storage,
                 committedMs, refTotals, activeMs>>
  /\ UNCHANGED <<storageKeys, pendingReads, response, sinceWrite, logVars>>

TabGetDone(t) ==
  /\ pendingGets[t] > 0
  /\ pendingGets' = [pendingGets EXCEPT ![t] = @ - 1]
  /\ currentTab' = AfterTabGet(t, tabs[t])
  /\ closed' = IF currentTab' = <<>> THEN "none"
               ELSE IF OpensInterval(tabs[t]) THEN "open" ELSE closed
  /\ ev' = IF tabs[t].open THEN NoEvent ELSE Event("tabGet", "failed", FALSE)
  /\ events' = events
  /\ UNCHANGED <<now, focusedWin, activeTab, tabs, isWindowFocused,
                 initPending, pendingQueries, pendingCommits, storage,
                 committedMs, refTotals, activeMs>>
  /\ UNCHANGED <<storageKeys, pendingReads, response, sinceWrite, logVars>>

\* dailyData[domain] = (dailyData[domain] || 0) + timeSpent (and, before it,
\* the accumulation with timeSpent as the default of a missing entry).
AccumulateDefaultSelf(dailyData, domain, timeSpent) ==
  Ext(dailyData, domain,
      (IF domain \in DOMAIN dailyData THEN dailyData[domain] ELSE timeSpent)
        + timeSpent)

\* (and the assignment that overwrites the entry)
AccumulateOverwrite(dailyData, domain, timeSpent) ==
  Ext(dailyData, domain, timeSpent)

Accumulate(dailyData, domain, timeSpent) ==
  Ext(dailyData, domain, MsOf(dailyData, domain) + timeSpent)

\* The keys of dailyData after that assignment: a new key goes last.
AccumulateKeys(keys, domain) ==
  IF \E i \in 1..Len(keys) : keys[i] = domain THEN keys ELSE Append(keys, domain)

\* storage.local.get of a commit answers; storage.local.set is requested.
StorageGetDone(c) ==
  /\ c.stage = "get"
  /\ pendingCommits' =
       (pendingCommits (-) SetToBag({c})) (+)
       SetToBag({[c EXCEPT !.stage = "set",
                   !.dailyData = Accumulate(DailyOf(storage, c.today),
                                            c.domain, c.timeSpent),
                   !.keys = AccumulateKeys(KeysOf(storageKeys, c.today),
                                           c.domain)]})
  /\ ev' = NoEvent
  /\ events' = events
  /\ UNCHANGED <<now, focusedWin, activeTab, tabs, currentTab, isWindowFocused,
                 initPending, pendingGets, pendingQueries, storage, closed,
                 committedMs, refTotals, activeMs>>
  /\ UNCHANGED <<storageKeys, pendingReads, response, sinceWrite, logVars>>

\* storage.local.set of a commit is applied.
StorageSetDone(c) ==
  /\ c.stage = "set"
  /\ storage' = Ext(storage, c.today, c.dailyData)
  /\ storageKeys' = Ext(storageKeys, c.today, c.keys)
  /\ sinceWrite' = NoResponses
  /\ pendingCommits' = pendingCommits (-) SetToBag({c})
  /\ committedMs' = [committedMs EXCEPT ![c.domain] = @ + c.timeSpent]
  /\ ev' = NoEvent
  /\ events' = events
  /\ UNCHANGED <<now, focusedWin, activeTab, tabs, currentTab, isWindowFocused,
                 initPending, pendingGets, pendingQueries, closed, refTotals,
                 activeMs>>
  /\ UNCHANGED <<pendingReads, response>>
  /\ UNCHANGED logVars

\* storage.local.get or set rejects: the catch of addTimeToStorage logs it
\* (and, before it, a write that fails after it has stored the day's data).
StorageFailPartial(c) ==
  /\ pendingCommits' = pendingCommits (-) SetToBag({c})
  /\ storage' = IF c.stage = "set" THEN Ext(storage, c.today, c.dailyData)
                ELSE storage
  /\ ev' = NoEvent
  /\ events' = events
  /\ UNCHANGED <<now, focusedWin, activeTab, tabs, currentTab, isWindowFocused,
                 initPending, pendingGets, pendingQueries, closed,
                 committedMs, refTotals, activeMs>>
  /\ UNCHANGED <<storageKeys, pendingReads, response, sinceWrite, logVars>>

StorageFail(c) ==
  /\ pendingCommits' = pendingCommits (-) SetToBag({c})
  /\ ev' = NoEvent
  /\ events' = events
  /\ UNCHANGED <<now, focusedWin, activeTab, tabs, currentTab, isWindowFocused,
                 initPending, pendingGets, pendingQueries, storage, closed,
                 committedMs, refTotals, activeMs>>
  /\ UNCHANGED <<storageKeys, pendingReads, response, sinceWrite, logVars>>

\* Time passes.
Tick ==
  /\ now < EndTime
  /\ now' = now + TickMs
  /\ ev' = NoEvent
  /\ events' = events
  /\ UNCHANGED <<focusedWin, activeTab, tabs, currentTab, isWindowFocused,
                 initPending, pendingGets, pendingQueries, pendingCommits,
                 storage, closed, committedMs, refTotals, activeMs>>
  /\ UNCHANGED <<storageKeys, pendingReads, response, sinceWrite, logVars>>

\* Time passes, and the time the shown domain was on screen is measured.
TickMeasured ==
  /\ now < EndTime
  /\ now' = now + TickMs
  /\ activeMs' = IF ShownDomain = <<>> THEN activeMs
                 ELSE [activeMs EXCEPT ![ShownDomain[1]] = @ + TickMs]
  /\ ev' = NoEvent
  /\ events' = events
  /\ UNCHANGED <<focusedWin, activeTab, tabs, currentTab, isWindowFocused,
                 initPending, pendingGets, pendingQueries, pendingCommits,
                 storage, closed, committedMs, refTotals>>
  /\ UNCHANGED <<storageKeys, pendingReads, response, sinceWrite, logVars>>

\* ----------------------------------------------------------- getTodayData
\* Object.entries(dailyData).map(([domain, timeSpent]) => ({domain, timeSpent})):
\* one pair per key, in the order of the keys.
ObjectEntries(dailyData, keys) ==
  [i \in 1..Len(keys) |-> [domain |-> keys[i], timeSpent |-> dailyData[keys[i]]]]

\* The comparator of the sort (and, before it, the ascending comparator).
CompareAscending(a, b) == a.timeSpent - b.timeSpent

Compare(a, b) == b.timeSpent - a.timeSpent

\* Array.prototype.sort is stable: e goes behind every element the comparator
\* does not order behind it.
RECURSIVE InsertSorted(_, _)
InsertSorted(sorted, e) ==
  IF sorted = <<>>
    THEN <<e>>
    ELSE IF Compare(sorted[Len(sorted)], e) <= 0
           THEN Append(sorted, e)
           ELSE Append(InsertSorted(SubSeq(sorted, 1, Len(sorted) - 1), e),
                       sorted[Len(sorted)])

RECURSIVE SortEntries(_)
SortEntries(entries) ==
  IF entries = <<>>
    THEN <<>>
    ELSE InsertSorted(SortEntries(SubSeq(entries, 1, Len(entries) - 1)),
                      entries[Len(entries)])

\* What getTodayData returns when storage.local.get([today]) answered (and,
\* before it, the totals with the time of the open interval added).
getTodayDataWithOpen(today) ==
  SortEntries(ObjectEntries(
    [d \in DOMAIN DailyOf(storage, today) |->
       DailyOf(storage, today)[d]
         + (IF currentTab # <<>> /\ currentTab[1].domain = d THEN Elapsed ELSE 0)],
    KeysOf(storageKeys, today)))

getTodayData(today) ==
  SortEntries(ObjectEntries(DailyOf(storage, today), KeysOf(storageKeys, today)))

\* chrome.runtime.onMessage {action: 'getTodayData'}: getTodayData takes the
\* day key and requests storage.local.get.
OnMessageGetTodayData ==
  /\ pendingReads' = pendingReads (+) SetToBag({getTodayKey(now)})
  /\ events < MaxEvents
  /\ events' = events + 1
  /\ ev' = Event("getTodayData", "", FALSE)
  /\ UNCHANGED <<now, focusedWin, activeTab, tabs, currentTab, isWindowFocused,
                 initPending, pendingGets, pendingQueries, pendingCommits,
                 storage, closed, committedMs, refTotals, activeMs,
                 storageKeys, response, sinceWrite>>
  /\ UNCHANGED logVars

\* storage.local.get of a getTodayData call answers: the response is sent.
ReadDone(today) ==
  /\ pendingReads' = pendingReads (-) SetToBag({today})
  /\ response' = <<getTodayData(today)>>
  /\ sinceWrite' = [last |-> response', ok |-> response', n |-> sinceWrite.n + 1]
  /\ ev' = Event("response", "ok", FALSE)
  /\ events' = events
  /\ UNCHANGED <<now, focusedWin, activeTab, tabs, currentTab, isWindowFocused,
                 initPending, pendingGets, pendingQueries, pendingCommits,
                 storage, closed, committedMs, refTotals, activeMs,
                 storageKeys>>
  /\ UNCHANGED logVars

\* storage.local.get of a getTodayData call rejects (and, before it, a catch
\* that sends no response of its own): the catch returns [].
ReadFailNoResponse(today) ==
  /\ pendingReads' = pendingReads (-) SetToBag({today})
  /\ ev' = Event("response", "failed", FALSE)
  /\ events' = events
  /\ UNCHANGED <<now, focusedWin, activeTab, tabs, currentTab, isWindowFocused,
                 initPending, pendingGets, pendingQueries, pendingCommits,
                 storage, closed, committedMs, refTotals, activeMs,
                 storageKeys, response, sinceWrite>>
  /\ UNCHANGED logVars

ReadFail(today) ==
  /\ pendingReads' = pendingReads (-) SetToBag({today})
  /\ response' = << <<>> >>
  /\ sinceWrite' = [sinceWrite EXCEPT !.last = response']
  /\ ev' = Event("response", "failed", FALSE)
  /\ events' = events
  /\ UNCHANGED <<now, focusedWin, activeTab, tabs, currentTab, isWindowFocused,
                 initPending, pendingGets, pendingQueries, pendingCommits,
                 storage, closed, committedMs, refTotals, activeMs,
                 storageKeys>>
  /\ UNCHANGED logVars

Next ==
  \/ \E t \in Tabs : OnActivated(t)
  \/ \E t \in Tabs, status \in {"loading", "complete"} :
       \E url \in TabUrls(t) : OnUpdated(t, status, url)
  \/ OnFocusLost
  \/ \E w \in Windows : OnFocusGained(w)
  \/ \E t \in Tabs : CloseTab(t)
  \/ \E w \in Windows : QueryDone(w)
  \/ InitDone
  \/ \E t \in Tabs : TabGetDone(t)
  \/ \E c \in BagToSet(pendingCommits) : StorageGetDone(c)
  \/ \E c \in BagToSet(pendingCommits) : StorageSetDone(c)
  \/ \E c \in BagToSet(pendingCommits) : StorageFail(c)
  \/ Tick

Spec == Init /\ [][Next]_vars

\* The tracker with the on-screen time of each domain measured.
NextMeasured ==
  \/ \E t \in Tabs : OnActivated(t)
  \/ \E t \in Tabs, status \in {"loading", "complete"} :
       \E url \in TabUrls(t) : OnUpdated(t, status, url)
  \/ OnFocusLost
  \/ \E w \in Windows : OnFocusGained(w)
  \/ \E t \in Tabs : CloseTab(t)
  \/ \E w \in Windows : QueryDone(w)
  \/ InitDone
  \/ \E t \in Tabs : TabGetDone(t)
  \/ \E c \in BagToSet(pendingCommits) : StorageGetDone(c)
  \/ \E c \in BagToSet(pendingCommits) : StorageSetDone(c)
  \/ \E c \in BagToSet(pendingCommits) : StorageFail(c)
  \/ TickMeasured

SpecMeasured == Init /\ [][NextMeasured]_vars

\* Events are delivered only when no request is in flight (so no tab closes
\* during a lookup), and no request fails.
NextSeq ==
  \/ Quiescent /\ \E t \in Tabs : OnActivated(t)
  \/ Quiescent /\ \E t \in Tabs, status \in {"loading", "complete"} :
                     \E url \in TabUrls(t) : OnUpdated(t, status, url)
  \/ Quiescent /\ OnFocusLost
  \/ Quiescent /\ \E w \in Windows : OnFocusGained(w)
  \/ \E w \in Windows : QueryDone(w)
  \/ InitDone
  \/ \E t \in Tabs : TabGetDone(t)
  \/ \E c \in BagToSet(pendingCommits) : StorageGetDone(c)
  \/ \E c \in BagToSet(pendingCommits) : StorageSetDone(c)
  \/ Tick

SpecSeq == Init /\ [][NextSeq]_vars

\* The store when the background script is started again during the day: it
\* holds totals of today, as earlier runs wrote them.
Restarted(dailyData, keys) ==
  [store |-> Ext(Yesterday, getTodayKey(StartTime), dailyData),
   keys |-> Ext(YesterdayKeys, getTodayKey(StartTime), keys)]

StartStores ==
  { [store |-> Yesterday, keys |-> YesterdayKeys],
    Restarted([d \in Domains |-> IF d = "a.com" THEN MIN_DURATION_MS
                                                ELSE 2 * MIN_DURATION_MS],
              <<"a.com", "b.com">>),
    Restarted([d \in Domains |-> 2 * MIN_DURATION_MS], <<"b.com", "a.com">>) }

InitRead ==
  /\ InitTracker
  /\ \E s \in StartStores : storage = s.store /\ storageKeys = s.keys

\* The popup asks for the totals while the tracker runs; tracker events are
\* delivered only when no tracker request is in flight.
NextRead ==
  \/ Quiescent /\ \E t \in Tabs : OnActivated(t)
  \/ Quiescent /\ \E t \in Tabs, status \in {"loading", "complete"} :
                     \E url \in TabUrls(t) : OnUpdated(t, status, url)
  \/ Quiescent /\ OnFocusLost
  \/ Quiescent /\ \E w \in Windows : OnFocusGained(w)
  \/ \E w \in Windows : QueryDone(w)
  \/ InitDone
  \/ \E t \in Tabs : TabGetDone(t)
  \/ \E c \in BagToSet(pendingCommits) : StorageGetDone(c)
  \/ \E c \in BagToSet(pendingCommits) : StorageSetDone(c)
  \/ \E c \in BagToSet(pendingCommits) : StorageFail(c)
  \/ Tick
  \/ OnMessageGetTodayData
  \/ \E today \in BagToSet(pendingReads) : ReadDone(today)
  \/ \E today \in BagToSet(pendingReads) : ReadFail(today)

SpecRead == InitRead /\ [][NextRead]_vars

\* The tracker with the popup's calls, every request answered in the end: the
\* browser and the store answer (with a result or with a failure) whatever is
\* asked of them, and they answer before the clock advances by TickMs.
EventStep ==
  \/ \E t \in Tabs : OnActivated(t)
  \/ \E t \in Tabs, status \in {"loading", "complete"} :
       \E url \in TabUrls(t) : OnUpdated(t, status, url)
  \/ OnFocusLost
  \/ \E w \in Windows : OnFocusGained(w)
  \/ \E t \in Tabs : CloseTab(t)
  \/ OnMessageGetTodayData

Answer ==
  \/ \E w \in Windows : QueryDone(w)
  \/ InitDone
  \/ \E t \in Tabs : TabGetDone(t)
  \/ \E c \in BagToSet(pendingCommits) : StorageGetDone(c)
  \/ \E c \in BagToSet(pendingCommits) : StorageSetDone(c)
  \/ \E c \in BagToSet(pendingCommits) : StorageFail(c)
  \/ \E today \in BagToSet(pendingReads) : ReadDone(today)
  \/ \E today \in BagToSet(pendingReads) : ReadFail(today)

NextFair ==
  \/ EventStep
  \/ Answer
  \/ Outstanding = 0 /\ Tick

SpecFair == Init /\ [][NextFair]_vars /\ WF_vars(Answer)

\* A handler calls addDebugLog.
AddDebugLog(type, message) ==
  /\ Len(logHistory) < LogCalls
  /\ LET logEntry == LogEntry(type, message, Len(logHistory) + 1)
     IN  /\ debugLogs' = addDebugLog(debugLogs, logEntry)
         /\ logHistory' = Append(logHistory, logEntry)
  /\ ev' = NoEvent
  /\ events' = events
  /\ UNCHANGED <<now, focusedWin, activeTab, tabs, currentTab, isWindowFocused,
                 initPending, pendingGets, pendingQueries, pendingCommits,
                 storage, closed, committedMs, refTotals, activeMs,
                 storageKeys, pendingReads, response, sinceWrite>>

\* The clock advances once while the log is written.
LogTick == now = StartTime /\ Tick

\* The debug log: the calls of addDebugLog, in a row, from the constructor's on.
NextLog ==
  \/ AddDebugLog("tab_change", "Tab activated")
  \/ LogTick

SpecLog == Init /\ [][NextLog]_vars

\* ------------------------------------------------------------- the claims
Today == getTodayKey(now)
TodayMs(d) == MsOf(DailyOf(storage, Today), d)

\* C1: the durations committed to the store for a domain never add up to more
\* than the time a tab of that domain was the active tab of a focused window.
C1_NoDoubleCounting ==
  \A d \in Domains : committedMs[d] <= activeMs[d]

\* C2: once the close step has run on currentTab, currentTab is null (the
\* value of currentTab is never an interval that was already closed), and an
\* interval that was committed is not committed a second time.
C2_OnlyClosedIntervals ==
  [][/\ closed' \in {"none", "open"}
     /\ (closed = "committed" => NumCommits' <= NumCommits)]_vars

\* C3: closing an interval starts a commit exactly when its elapsed time is
\* at least MIN_DURATION_MS, and an interval closed below the threshold is
\* not committed by any later event.
C3_ThresholdExclusion ==
  [][/\ (NumCommits' > NumCommits =>
            currentTab # <<>> /\ Elapsed >= MIN_DURATION_MS)
     /\ (ev'.op = "focusLost" /\ currentTab # <<>>
            /\ Elapsed >= MIN_DURATION_MS => NumCommits' > NumCommits)
     /\ (closed = "short" => NumCommits' <= NumCommits)]_vars

\* C4: while the window is not focused there is no current interval.
C4_IntervalOnlyWhileFocused ==
  ~isWindowFocused => currentTab = <<>>

\* C5: when a transition to a tab whose URL is chrome:, chrome-extension: or
\* does not parse completes, currentTab is null; no interval and no stored
\* total is ever under a domain of such a URL.
Untrackable(url) ==
  \/ ParseURL(url) = <<>>
  \/ ParseURL(url)[1].protocol \in {"chrome:", "chrome-extension:"}

C5_DomainFiltering ==
  [][/\ \A t \in Tabs :
          pendingGets'[t] < pendingGets[t] /\ tabs[t].open
            /\ Untrackable(tabs[t].url) => currentTab' = <<>>
     /\ (currentTab' # <<>> => currentTab'[1].domain \in Domains)
     /\ DOMAIN DailyOf(storage', Today) \subseteq Domains]_vars

\* C6: a tab-updated event starts a transition exactly when the load is
\* complete, the tab is active and the window is focused; otherwise it
\* changes nothing of the tracker, its requests or the store.
C6_FocusGating ==
  [][ev'.op = "onUpdated" =>
       IF ev'.status = "complete" /\ ev'.active /\ isWindowFocused
         THEN GetsInFlight' = GetsInFlight + 1
         ELSE UNCHANGED <<currentTab, isWindowFocused, storage, initPending,
                          pendingGets, pendingQueries, pendingCommits>>]_vars

\* C6 witness: a load-complete update of the active tab was delivered while
\* the window was not focused.
C6_Witness ==
  /\ ev.op = "onUpdated" /\ ev.status = "complete" /\ ev.active
  /\ ~isWindowFocused
  /\ GetsInFlight = 0

\* C7: within a day key no stored total decreases and no entry disappears.
C7_Monotonic ==
  [][\A k \in DOMAIN storage :
       /\ k \in DOMAIN storage'
       /\ \A d \in DOMAIN storage[k] :
            d \in DOMAIN storage'[k] /\ storage'[k][d] >= storage[k][d]]_vars

\* C8: a write never stores more than the durations committed: the stored
\* total of a domain is at most the sum of the durations written for it (it
\* falls short of it exactly when an update was lost).
C8_StoreAtMostCommitted ==
  \A d \in Domains : TodayMs(d) <= committedMs[d]

\* C8 witness: every commit has finished without error and the stored total
\* of a domain is smaller than the sum of the durations written for it.
C8_Witness ==
  /\ NumCommits = 0
  /\ \E d \in Domains : TodayMs(d) < committedMs[d]

\* C9: when every event's requests finish before the next event, the stored
\* total of each domain is the sum of the elapsed times of its closed
\* intervals that reached the threshold.
C9_SequentialReference ==
  Quiescent => \A d \in Domains : TodayMs(d) = refTotals[d]

Responds == ev'.op = "response"
RespondsOk == ev'.op = "response" /\ ev'.status = "ok"
RespondsFailed == ev'.op = "response" /\ ev'.status = "failed"

\* C11: the response of getTodayData holds one {domain, timeSpent} pair for
\* every domain the store has under today's key and nothing else, the pairs
\* ordered by timeSpent descending; it is empty when the store has no value
\* under today's key, whatever interval is open.
C11_TodayTotals ==
  [][RespondsOk =>
       LET r == response'[1]
           daily == DailyOf(storage, Today)
       IN /\ Len(r) = Cardinality(DOMAIN daily)
          /\ \A d \in DOMAIN daily :
               \E i \in 1..Len(r) : r[i] = [domain |-> d, timeSpent |-> daily[d]]
          /\ \A i, j \in 1..Len(r) : i < j => r[i].timeSpent >= r[j].timeSpent
          /\ (Today \notin DOMAIN storage => r = <<>>)]_vars

\* C11 happens: with an interval open for some time, a response lists two
\* domains, the one stored second first because its total is larger.
C11_Witness ==
  /\ ev.op = "response" /\ ev.status = "ok"
  /\ currentTab # <<>> /\ Elapsed > 0
  /\ Len(response[1]) = 2
  /\ response[1][1].domain = "b.com"
  /\ KeysOf(storageKeys, Today) = <<"a.com", "b.com">>
  /\ response[1][1].timeSpent > response[1][2].timeSpent

C13_QueryFailure ==
  [][RespondsFailed =>
       /\ response' = << <<>> >>
       /\ UNCHANGED <<currentTab, isWindowFocused, storage, storageKeys,
                      initPending, pendingGets, pendingQueries, pendingCommits>>]_vars

\* C13 happens: a failed read was answered with the empty sequence although
\* the store holds totals of today and an interval is open.
C13_Witness ==
  /\ ev.op = "response" /\ ev.status = "failed"
  /\ response = << <<>> >>
  /\ DOMAIN DailyOf(storage, Today) # {}
  /\ currentTab # <<>>

\* The chrome.tabs.get of a transition rejects in this step.
LookupFails == ev'.op = "tabGet" /\ ev'.status = "failed"

\* C14: when the tab lookup of a transition fails, the transition finishes
\* with currentTab absent; isWindowFocused, the store and the other requests
\* in flight are as before, so later events and answers are handled as ever.
C14_LookupFailure ==
  [][LookupFails =>
       /\ currentTab' = <<>>
       /\ GetsInFlight' = GetsInFlight - 1
       /\ UNCHANGED <<isWindowFocused, storage, initPending, pendingQueries,
                      pendingCommits>>]_vars

\* C14 happens: the lookup of a closed tab failed, the transition to the tab
\* that remains finished after it, and the interval of that tab is open.
C14_Witness ==
  \E t \in Tabs :
    /\ ~tabs[t].open /\ GetsInFlight = 0 /\ ~initPending
    /\ currentTab # <<>> /\ currentTab[1].tabId # t
    /\ currentTab[1].startTime > StartTime
    /\ closed = "open"

Finishes(t) == pendingGets'[t] < pendingGets[t]

\* C16: when a transition to tab t finishes while the window is focused,
\* currentTab is absent or the interval {t, domain of t's URL, now}; it is
\* absent when t's URL yields no domain, the tab without any URL included.
C16_TransitionOutcome ==
  [][\A t \in Tabs :
       Finishes(t) /\ isWindowFocused =>
         IF tabs[t].open /\ DomainTruthy(extractDomain(tabs[t].url))
           THEN \/ currentTab' = <<>>
                \/ currentTab' = <<[tabId |-> t,
                                    domain |-> extractDomain(tabs[t].url)[1],
                                    startTime |-> now]>>
           ELSE currentTab' = <<>>]_vars

\* C17: a transition that finishes replaces an interval by another one only
\* when the close step has been applied to the interval it replaces.
C17_ClosedBeforeOpened ==
  [][\A t \in Tabs :
       Finishes(t) /\ currentTab # <<>> /\ currentTab' # <<>>
         /\ currentTab' # currentTab
       => closed # "open"]_vars

\* C18: a tab-activated event, or the transition the focus-gained query asks
\* for, that arrives while isWindowFocused is false leaves currentTab,
\* isWindowFocused and the store alone, starts no tab lookup and no commit.
C18_IgnoredWhileUnfocused ==
  [][/\ ~isWindowFocused
     /\ \/ ev'.op = "onActivated"
        \/ \E w \in Windows : pendingQueries'[w] < pendingQueries[w]
     => UNCHANGED <<currentTab, isWindowFocused, storage, storageKeys,
                    pendingGets, pendingCommits, closed>>]_vars

\* C18 happens: a tab was activated while the window was not focused, with
\* an interval of a second or more in currentTab: no lookup and no commit
\* was started.
C18_Witness ==
  /\ ev.op = "onActivated" /\ ~isWindowFocused
  /\ currentTab # <<>> /\ Elapsed >= MIN_DURATION_MS
  /\ currentTab[1].tabId # activeTab
  /\ GetsInFlight = 0 /\ NumCommits = 0

\* C19: a focus-gained event sets isWindowFocused and asks for the active tab
\* of the window; when the answer has a tab, the transition to it starts
\* (the close step on the interval at hand, then the tab lookup); when it has
\* none, no lookup starts and currentTab is absent afterwards.
C19_FocusGained ==
  [][/\ ev'.op = "focusGained" =>
          /\ isWindowFocused'
          /\ pendingQueries'[focusedWin'] = pendingQueries[focusedWin'] + 1
     /\ \A w \in Windows :
          pendingQueries'[w] < pendingQueries[w] =>
            IF w = TabWindow
              THEN isWindowFocused =>
                     /\ GetsInFlight' = GetsInFlight + 1
                     /\ (currentTab # <<>> /\ Elapsed >= MIN_DURATION_MS
                           => NumCommits' = NumCommits + 1)
              ELSE /\ GetsInFlight' = GetsInFlight
                   /\ currentTab' = <<>>]_vars

\* The storage.local.set of a commit is applied in this step.
Writes(c) == c.stage = "set" /\ committedMs'[c.domain] # committedMs[c.domain]

\* C20: the store changes only in the step that applies the write of a commit;
\* with tracker events one at a time no two commits overlap, and the write
\* of a commit (domain, timeSpent) raises the domain's total of the commit's
\* day by exactly timeSpent (from 0 when the day or the domain had no entry),
\* every other domain of that day and every other day staying as they were.
C20_CommitEffect ==
  [][/\ NumCommits <= 1
     /\ (storage' # storage => \E c \in BagToSet(pendingCommits) : Writes(c))
     /\ \A c \in BagToSet(pendingCommits) :
          Writes(c) =>
            /\ DOMAIN storage' = DOMAIN storage \cup {c.today}
            /\ DOMAIN storage'[c.today]
                 = DOMAIN DailyOf(storage, c.today) \cup {c.domain}
            /\ storage'[c.today][c.domain]
                 = MsOf(DailyOf(storage, c.today), c.domain) + c.timeSpent
            /\ \A d \in DOMAIN DailyOf(storage, c.today) \ {c.domain} :
                 storage'[c.today][d] = storage[c.today][d]
            /\ \A k \in DOMAIN storage \ {c.today} : storage'[k] = storage[k]]_vars

\* C20 happens: a commit for a.com was written on top of today's totals of an
\* earlier run: a.com grew by the committed time, b.com and the day before
\* are as they were.
C20_Witness ==
  /\ committedMs["a.com"] >= MIN_DURATION_MS
  /\ NumCommits = 0
  /\ Today \in DOMAIN storage
  /\ DOMAIN storage[Today] = Domains
  /\ storage[Today]["a.com"] = MIN_DURATION_MS + committedMs["a.com"]
  /\ storage[Today]["b.com"] = 2 * MIN_DURATION_MS
  /\ storage[Today - 1] = Yesterday[Today - 1]

\* A commit ends in this step: with its write applied, or with a failure of
\* its read or of its write.
CommitEnds == NumCommits' < NumCommits
CommitFails == NumCommits' < NumCommits /\ committedMs' = committedMs

\* C21: when the read or the write of a commit fails, the store is as it was
\* before, nothing but the commit itself ends, and currentTab and
\* isWindowFocused are what they are when a commit succeeds: untouched.
C21_CommitFailure ==
  [][/\ CommitFails =>
          UNCHANGED <<storage, storageKeys, initPending, pendingGets,
                      pendingQueries, closed>>
     /\ CommitEnds => UNCHANGED <<currentTab, isWindowFocused>>]_vars

\* C21 happens: an interval of a second or more was closed and its commit
\* failed: nothing of it is in the store, no commit is in flight, and the
\* tracker has opened the next interval.
C21_Witness ==
  /\ \E d \in Domains : refTotals[d] >= MIN_DURATION_MS
  /\ \A d \in Domains : committedMs[d] = 0
  /\ NumCommits = 0
  /\ storage = Yesterday
  /\ currentTab # <<>> /\ closed = "open"
  /\ currentTab[1].startTime > StartTime

\* The tabs.query of initializeCurrentTab is answered in this step.
InitResolves == initPending /\ ~initPending'

\* C22: when the query of initializeCurrentTab is answered, no interval is
\* opened while isWindowFocused is false, and an interval that a handler has
\* opened meanwhile is not replaced.
C22_StartupSafe ==
  [][InitResolves =>
       /\ (~isWindowFocused => currentTab' = currentTab)
       /\ (currentTab # <<>> => currentTab' = currentTab)]_vars

\* The n entries addDebugLog was last called with, the last call first.
MostRecent(n) == [i \in 1..n |-> logHistory[Len(logHistory) - i + 1]]

LogMin(a, b) == IF a < b THEN a ELSE b

\* C23: after any sequence of addDebugLog calls the log holds at most
\* MAX_DEBUG_LOGS entries, they are the entries of the most recent calls (all
\* of them while there were at most MAX_DEBUG_LOGS calls), and they are in
\* the order newest first: the entry of the last call first, no timestamp
\* later than the one before it.
C23_RingBuffer ==
  /\ Len(getDebugLogs) <= MAX_DEBUG_LOGS
  /\ getDebugLogs = MostRecent(LogMin(Len(logHistory), MAX_DEBUG_LOGS))
  /\ \A i \in 1..(Len(getDebugLogs) - 1) :
       getDebugLogs[i].timestamp >= getDebugLogs[i + 1].timestamp

\* The log has overflowed, and it holds entries of before and after the
\* clock advanced.
C23_Witness ==
  /\ Len(logHistory) > MAX_DEBUG_LOGS
  /\ Len(debugLogs) = MAX_DEBUG_LOGS
  /\ debugLogs[1].timestamp > debugLogs[MAX_DEBUG_LOGS].timestamp
====
